---- MODULE Spec2Model ----
(***************************************************************************)
(* State-machine model of the telemetry hooks of react-perf-dashboard:     *)
(*   useNetworkMonitor (src/src/hooks/useNetworkMonitor.ts)                *)
(*   useFps            (src/src/hooks/useFps.ts)                           *)
(*   useMemory         (src/src/hooks/useMemory.ts)                        *)
(*   useWebVitals      (src/unnamed/part_002, PerformanceObserver based;   *)
(*                      src/src/hooks/useWebVitals.ts, web-vitals based)   *)
(* and of the drag handling of the Dashboard component                     *)
(*                     (src/src/components/Dashboard.tsx).                 *)
(* The host (browser) is modelled by the actions that deliver frames,      *)
(* timer ticks, performance entries and fetch settlements.  Time is the value performance.now() *)
(* returns, counted in thousandths of a millisecond.                       *)
(***************************************************************************)
EXTENDS Integers, Sequences, FiniteSets, TLC

VARIABLES
    \* ---- host clock
    now,            \* performance.now(), in 1/1000 ms
    \* ---- useNetworkMonitor
    windowFetch,    \* the function currently installed as window.fetch
    captured,       \* wrapper |-> the originalFetch its effect closure captured
    active,         \* instance |-> effect mounted and cleanup not yet run
    gen,            \* instance |-> number of effect runs (start() calls) so far
    requests,       \* instance |-> the hook's `requests` state
    updates,        \* instance |-> number of setRequests invocations (history)
    lateUpdates,    \* instance |-> setRequests invocations made while stopped (history)
    calls,          \* call id |-> call in flight (native fetch pending)
    nextCall,       \* number of fetch calls issued so far
    lastDone,       \* what the most recently settled call delivered (history)
    \* ---- useFps
    fpsPhase,       \* "idle" | "running" | "stopped"
    fps,            \* the hook's `fps` state
    frameCount,     \* closure variable frameCount
    lastTime,       \* closure variable lastTime
    animationFrameId, \* closure variable animationFrameId
    rafPending,     \* handles of the frame callbacks the host holds
    rafNext,        \* number of requestAnimationFrame calls so far
    fpsLog,         \* what the frame loop did, for the properties (history)
    \* ---- useMemory
    memPhase,       \* "idle" | "running" | "stopped"
    interval,       \* closure constant `interval`: the id setInterval returned
    timers,         \* ids of the repeating timers the host holds
    perfMemory,     \* performance.memory: absent, or the two byte counts
    memory,         \* the hook's `memory` state
    memLog,         \* what the interval callback did, for the properties (history)
    \* ---- useWebVitals, PerformanceObserver based
    vitPhase,       \* "idle" | "running" | "stopped"
    rejected,       \* entry types whose observe() call the host rejected
    observers,      \* entry types whose observer the host holds attached
    vitals,         \* the hook's `vitals` state
    clsValue,       \* closure variable clsValue
    worstInp,       \* closure variable worstInp
    vitLog,         \* what the host delivered and the callbacks did (history)
    \* ---- useWebVitals, web-vitals based
    wvPhase,        \* "idle" | "mounted" | "unmounted"
    wvSubs,         \* metrics whose callback the library holds
    wvVitals,       \* the hook's `vitals` state
    wvLog,          \* what the library reported (history)
    \* ---- Dashboard: dragging the overlay
    dashPhase,      \* "idle" | "mounted" | "unmounted"
    position,       \* the component's `position` state
    isDragging,     \* isDragging.current
    dragOffset,     \* dragOffset.current
    listeners,      \* event types the component has a window listener for
    dragLog         \* the mouse events the host dispatched (history)

netVars == <<windowFetch, captured, active, gen, requests, updates, lateUpdates,
             calls, nextCall, lastDone>>
fpsVars == <<fpsPhase, fps, frameCount, lastTime, animationFrameId, rafPending,
             rafNext, fpsLog>>
memVars == <<memPhase, interval, timers, perfMemory, memory, memLog>>
vitVars == <<vitPhase, rejected, observers, vitals, clsValue, worstInp, vitLog>>
wvVars == <<wvPhase, wvSubs, wvVitals, wvLog>>
dragVars == <<dashPhase, position, isDragging, dragOffset, listeners, dragLog>>
vars == <<now, netVars, fpsVars, memVars, vitVars, wvVars, dragVars>>

(***************************************************************************)
(* Bounds of the model.                                                    *)
(***************************************************************************)
MaxCalls == 2       \* fetch calls issued, two-instance specification
MaxCycles == 2      \* start()/stop() cycles, one-instance specification
MaxCycleCalls == 2  \* fetch calls issued, one-instance specification
MaxHistCalls == 8   \* fetch calls issued, long-run specification
MaxFrames == 6      \* frames the host renders
MaxMemTicks == 4    \* interval ticks the host fires
MaxDeliveries == 3  \* entry lists the host delivers to the observers
MaxReports == 3     \* metric reports the web-vitals library makes
MaxEvents == 3      \* host events in the four-collector specification
MaxMouseEvents == 5 \* mouse events the host dispatches

Min(a, b) == IF a <= b THEN a ELSE b

(***************************************************************************)
(* Values.                                                                 *)
(***************************************************************************)
\* A function reference: the browser's fetch, or the wrapper that the g-th
\* effect run of instance i created.
Native == <<0, 0>>
Wrapper(i, g) == <<i, g>>

\* Number of clock units in one millisecond.
TicksPerMs == 1000

\* What a caller may pass as fetch's first argument.
Inputs == { [kind |-> "string", href |-> "/api/a"],
            [kind |-> "Request", href |-> "/api/b"] }
StringInputs == { x \in Inputs : x.kind = "string" }

\* What the browser's fetch may settle with.
Responses(id) == { [ok |-> TRUE, resp |-> [obj |-> id, status |-> s]] : s \in {200, 404} }
Failures(id) == { [ok |-> FALSE, err |-> [obj |-> id, name |-> "TypeError"]] }

\* Number of records the history keeps: slice(0, 5).
HistoryLimit == 5

\* Date.now(): whole milliseconds.
DateNow == now \div TicksPerMs

\* args[0].toString()
ArgToString(input) ==
    IF input.kind = "Request" THEN "[object Request]" ELSE input.href

\* parseFloat(x.toFixed(2)): x rounded to hundredths of a millisecond.
ToFixed2(x) == ((x + 5) \div 10) * 10

(***************************************************************************)
(* useNetworkMonitor: the wrapper installed as window.fetch.               *)
(***************************************************************************)
\* A faulty variant of Callee: every wrapper delegates to the browser's fetch.
CalleeNative(f) == Native

\* The function a wrapper delegates to: the originalFetch of its closure.
Callee(f) == captured[f]

\* A faulty variant of PassedArgs: the wrapper calls originalFetch() without arguments.
PassedArgsDropped(args) == <<>>

\* originalFetch(...args): the argument list is passed on as it came.
PassedArgs(args) == args

\* Invoking f runs each wrapper up to its `await originalFetch(...args)`:
\* one frame per wrapper on the way down to the browser's fetch.
RECURSIVE Frames(_, _)
Frames(f, args) ==
    IF f = Native THEN <<>>
    ELSE <<[fn |-> f, startTime |-> now, args |-> args,
            callee |-> Callee(f), passed |-> PassedArgs(args)]>>
         \o Frames(Callee(f), PassedArgs(args))

\* The argument list the browser's fetch receives at the end of the chain.
NativeArgs(frames, args) ==
    IF frames = <<>> THEN args ELSE frames[Len(frames)].passed

\* newReq of the try branch.  The fields call and seq are history: the call the
\* record is about, and the number of this setRequests invocation.
SuccessRecord(fr, response, id, n) ==
    [url |-> ArgToString(fr.args[1]),
     status |-> response.status,
     duration |-> ToFixed2(now' - fr.startTime),
     timestamp |-> DateNow',
     call |-> id, seq |-> n]

\* The record built in the catch branch.
FailureRecord(fr, id, n) ==
    [url |-> ArgToString(fr.args[1]),
     status |-> 0,
     duration |-> now' - fr.startTime,
     timestamp |-> DateNow',
     call |-> id, seq |-> n]

\* A faulty variant of Prepend: the slice keeps one record too many.
PrependKeepsSix(rec, prev) ==
    SubSeq(<<rec>> \o prev, 1, Min(HistoryLimit + 1, Len(prev) + 1))

\* A faulty variant of Prepend: the new record is put behind the old ones.
PrependAtTail(rec, prev) ==
    SubSeq(prev \o <<rec>>, 1, Min(HistoryLimit, Len(prev) + 1))

\* A faulty variant of Prepend: the records already held take over the
\* status and duration of the new one.
PrependOverwrites(rec, prev) ==
    SubSeq(<<rec>> \o [p \in DOMAIN prev |->
                          [prev[p] EXCEPT !.status = rec.status,
                                          !.duration = rec.duration]],
           1, Min(HistoryLimit, Len(prev) + 1))

\* A faulty variant of Prepend: the new record is inserted twice.
PrependTwice(rec, prev) ==
    SubSeq(<<rec, rec>> \o prev, 1, Min(HistoryLimit, Len(prev) + 2))

\* The updater given to setRequests: [rec, ...prev].slice(0, 5).
Prepend(rec, prev) ==
    SubSeq(<<rec>> \o prev, 1, Min(HistoryLimit, Len(prev) + 1))

\* A faulty variant of WrapperResult: the catch branch swallows the failure.
WrapperResultSwallows(out) ==
    IF out.ok THEN out ELSE [ok |-> TRUE, resp |-> [obj |-> 0, status |-> 0]]

\* What the wrapper settles with: `return response` or `throw err`.
WrapperResult(out) == out

\* One wrapper resuming after its await: it calls setRequests once and
\* settles with the outcome it awaited.  st carries the state being updated.
WrapperResume(fr, id, out, st) ==
    LET i == fr.fn[1]
        n == st.updates[i] + 1
        rec == IF out.ok THEN SuccessRecord(fr, out.resp, id, n)
                         ELSE FailureRecord(fr, id, n)
    IN  [requests |-> [st.requests EXCEPT ![i] = Prepend(rec, @)],
         updates |-> [st.updates EXCEPT ![i] = @ + 1],
         lateUpdates |-> [st.lateUpdates EXCEPT
                             ![i] = IF active[i] THEN @ ELSE @ + 1],
         out |-> WrapperResult(out)]

\* The wrappers of a call resume innermost first.
RECURSIVE Unwind(_, _, _, _)
Unwind(frames, id, out, st) ==
    IF frames = <<>> THEN st
    ELSE LET n == Len(frames)
             s1 == WrapperResume(frames[n], id, out, st)
         IN  Unwind(SubSeq(frames, 1, n - 1), id, s1.out, s1)

\* The effect body: capture window.fetch, install a new wrapper.
StartNet(i, maxCycles) ==
    /\ ~active[i]
    /\ gen[i] < maxCycles
    /\ LET w == Wrapper(i, gen[i] + 1)
       IN  /\ captured' = (w :> windowFetch) @@ captured
           /\ windowFetch' = w
    /\ active' = [active EXCEPT ![i] = TRUE]
    /\ gen' = [gen EXCEPT ![i] = @ + 1]
    /\ UNCHANGED <<now, requests, updates, lateUpdates, calls, nextCall,
                   lastDone, fpsVars, memVars, vitVars, wvVars, dragVars>>

\* A faulty variant of RestoredFetch: the cleanup leaves the installed function in place.
RestoredFetchKeepsWrapper(i) == windowFetch

\* The function the cleanup of instance i's latest effect run assigns.
RestoredFetch(i) == captured[Wrapper(i, gen[i])]

\* The effect cleanup: window.fetch = originalFetch.
StopNet(i) ==
    /\ active[i]
    /\ windowFetch' = RestoredFetch(i)
    /\ active' = [active EXCEPT ![i] = FALSE]
    /\ UNCHANGED <<now, captured, gen, requests, updates, lateUpdates, calls,
                   nextCall, lastDone, fpsVars, memVars, vitVars, wvVars, dragVars>>

\* The cleanup closure of instance i's latest effect run is invoked once
\* more after it has already run: window.fetch = originalFetch, again.
StopNetAgain(i) ==
    /\ ~active[i]
    /\ gen[i] > 0
    /\ windowFetch' = RestoredFetch(i)
    /\ UNCHANGED <<now, captured, active, gen, requests, updates, lateUpdates, calls,
                   nextCall, lastDone, fpsVars, memVars, vitVars, wvVars, dragVars>>

\* Some code calls f(input): window.fetch, or a wrapper it kept a reference to.
Invoke(f, input, maxCalls, maxInFlight) ==
    /\ nextCall < maxCalls
    /\ Cardinality(DOMAIN calls) < maxInFlight
    /\ LET id == nextCall + 1
           args == <<input>>
           frames == Frames(f, args)
       IN  calls' = (id :> [id |-> id, entry |-> f, args |-> args,
                            frames |-> frames,
                            nativeArgs |-> NativeArgs(frames, args)]) @@ calls
    /\ nextCall' = nextCall + 1
    /\ UNCHANGED <<now, windowFetch, captured, active, gen, requests, updates,
                   lateUpdates, lastDone, fpsVars, memVars, vitVars, wvVars, dragVars>>

\* A call through the global function.
CallFetch(input, maxCalls, maxInFlight) ==
    Invoke(windowFetch, input, maxCalls, maxInFlight)

\* A call through a wrapper reference that is no longer installed.
CallRetained(w, input, maxCalls, maxInFlight) ==
    /\ w \in DOMAIN captured
    /\ w # windowFetch
    /\ Invoke(w, input, maxCalls, maxInFlight)

\* The browser settles the pending fetch of call id with `out`, `d` after its
\* previous network event; the wrappers of the call resume in the same
\* microtask checkpoint, at the new time.
Settle(id, out, d) ==
    /\ id \in DOMAIN calls
    /\ now' = now + d
    /\ LET c == calls[id]
           st == Unwind(c.frames, id, out,
                        [requests |-> requests, updates |-> updates,
                         lateUpdates |-> lateUpdates, out |-> out])
       IN  /\ requests' = st.requests
           /\ updates' = st.updates
           /\ lateUpdates' = st.lateUpdates
           /\ lastDone' = [id |-> id, native |-> out, caller |-> st.out,
                           fns |-> [k \in DOMAIN c.frames |-> c.frames[k].fn]]
    /\ calls' = [k \in DOMAIN calls \ {id} |-> calls[k]]
    /\ UNCHANGED <<windowFetch, captured, active, gen, nextCall,
                   fpsVars, memVars, vitVars, wvVars, dragVars>>

\* Time between two network events, in clock units.
Latencies == {7}

(***************************************************************************)
(* useFps: the requestAnimationFrame loop.                                 *)
(***************************************************************************)
\* Math.round(n / d) for n >= 0, d > 0: halves round up.
MathRound(n, d) == (2 * n + d) \div (2 * d)

\* The window length tested by the loop, `>= 1000` (milliseconds), in clock units.
WindowTicks == 1000 * TicksPerMs

\* What a division by zero yields for a positive dividend; Math.round keeps it.
Infinity == [infinite |-> TRUE]

\* (frameCount * 1000) / (now - lastTime), rounded; times are in clock units.
FpsValue(count, elapsed) ==
    IF elapsed = 0 THEN Infinity
    ELSE MathRound(count * 1000 * TicksPerMs, elapsed)

\* Gaps between two frames of the host, in clock units.
FrameGaps == {400 * TicksPerMs, 600 * TicksPerMs, 1100 * TicksPerMs}

\* A faulty variant of WindowElapsed: a window of exactly 1000 ms stays open.
WindowElapsedStrict(t, lt) == t - lt > WindowTicks

\* A faulty variant of WindowElapsed: every run of loop closes the window.
WindowElapsedAlways(t, lt) == TRUE

\* The test that closes a measurement window.
WindowElapsed(t, lt) == t - lt >= WindowTicks

\* requestAnimationFrame(loop): the handle stored in animationFrameId.
Scheduled(st) == st.rafNext + 1

\* One run of loop() at time t on the closure state st.
LoopBody(st, t) ==
    LET fc == st.frameCount + 1
        closes == WindowElapsed(t, st.lastTime)
        h == Scheduled(st)
    IN  [frameCount |-> IF closes THEN 0 ELSE fc,
         lastTime |-> IF closes THEN t ELSE st.lastTime,
         fps |-> IF closes THEN FpsValue(fc, t - st.lastTime) ELSE st.fps,
         animationFrameId |-> h,
         rafPending |-> st.rafPending \cup {h},
         rafNext |-> st.rafNext + 1,
         log |-> [st.log EXCEPT
                     !.loopRuns = @ + 1,
                     !.emits = IF closes THEN @ + 1 ELSE @,
                     !.lastEmit = IF closes
                                  THEN [value |-> FpsValue(fc, t - st.lastTime),
                                        frames |-> st.log.windowFrames,
                                        elapsed |-> t - st.lastTime]
                                  ELSE @,
                     !.windowFrames = IF closes THEN 0 ELSE @]]

\* The host runs the callbacks whose handles were pending when the frame
\* began and have not been cancelled; each of them is loop.
RECURSIVE RunCallbacks(_, _, _)
RunCallbacks(handles, st, t) ==
    IF handles = {} THEN st
    ELSE LET h == CHOOSE x \in handles : \A y \in handles : x <= y
         IN  IF h \in st.rafPending
             THEN RunCallbacks(handles \ {h},
                               LoopBody([st EXCEPT !.rafPending = @ \ {h}], t), t)
             ELSE RunCallbacks(handles \ {h}, st, t)

FpsState ==
    [frameCount |-> frameCount, lastTime |-> lastTime, fps |-> fps,
     animationFrameId |-> animationFrameId, rafPending |-> rafPending,
     rafNext |-> rafNext, log |-> fpsLog]

\* A faulty variant of SetFpsState: the handle requestAnimationFrame returns
\* is stored only by the first run of loop.
SetFpsStateFirstHandle(st) ==
    /\ frameCount' = st.frameCount
    /\ lastTime' = st.lastTime
    /\ fps' = st.fps
    /\ animationFrameId' = IF animationFrameId = 0 THEN st.animationFrameId
                                                  ELSE animationFrameId
    /\ rafPending' = st.rafPending
    /\ rafNext' = st.rafNext
    /\ fpsLog' = st.log

\* The closure variables, the fps state and the host's callback list after a
\* run of loop.
SetFpsState(st) ==
    /\ frameCount' = st.frameCount
    /\ lastTime' = st.lastTime
    /\ fps' = st.fps
    /\ animationFrameId' = st.animationFrameId
    /\ rafPending' = st.rafPending
    /\ rafNext' = st.rafNext
    /\ fpsLog' = st.log

\* The effect body: frameCount = 0, lastTime = performance.now(), loop().
StartFps ==
    /\ fpsPhase = "idle"
    /\ fpsPhase' = "running"
    /\ SetFpsState(LoopBody([FpsState EXCEPT !.frameCount = 0,
                                             !.lastTime = now], now))
    /\ UNCHANGED <<now, netVars, memVars, vitVars, wvVars, dragVars>>

\* A faulty variant of CancelledHandle: the cleanup cancels the handle of the frame before.
CancelledHandleStale == animationFrameId - 1

\* The handle the cleanup cancels.
CancelledHandle == animationFrameId

\* The effect cleanup: cancelAnimationFrame(animationFrameId).
StopFps ==
    /\ fpsPhase = "running"
    /\ fpsPhase' = "stopped"
    /\ rafPending' = rafPending \ {CancelledHandle}
    /\ UNCHANGED <<now, fps, frameCount, lastTime, animationFrameId, rafNext,
                   fpsLog, netVars, memVars, vitVars, wvVars, dragVars>>

\* The host renders a frame `gap` after the previous one and runs the pending
\* frame callbacks.
HostFrame(gap) ==
    /\ fpsLog.hostFrames < MaxFrames
    /\ now' = now + gap
    /\ LET counted == [fpsLog EXCEPT
                          !.hostFrames = @ + 1,
                          !.windowFrames = IF fpsPhase = "running" THEN @ + 1 ELSE @,
                          !.framesAfterStop = IF fpsPhase = "stopped" THEN @ + 1 ELSE @]
       IN  SetFpsState(RunCallbacks(rafPending, [FpsState EXCEPT !.log = counted],
                                    now + gap))
    /\ UNCHANGED <<fpsPhase, netVars, memVars, vitVars, wvVars, dragVars>>

(***************************************************************************)
(* useMemory: the setInterval poll.                                        *)
(***************************************************************************)
Null == [null |-> TRUE]

\* x / 1024 on an exact fraction.
Div1024(q) == [num |-> q.num, den |-> q.den * 1024]

\* bytes / 1024 / 1024
ToMB(bytes) == Div1024(Div1024([num |-> bytes, den |-> 1]))

\* What performance.memory may report when the host provides it.
HeapReadings ==
    { [usedJSHeapSize |-> u, jsHeapSizeLimit |-> l] :
        u \in {1572864, 3145728}, l \in {4194304, 8388608} }

\* The object given to setMemory.
Sample(m) == [used |-> ToMB(m.usedJSHeapSize), limit |-> ToMB(m.jsHeapSizeLimit)]

\* A faulty variant of Polled: once a tick found the capability absent, later
\* ticks no longer look for it.
PolledCachesAbsence(m, prev) ==
    IF m # Null /\ (memLog.ticks = 0 \/ memLog.lastTick.present) THEN Sample(m) ELSE prev

\* The interval callback's effect on the `memory` state.
Polled(m, prev) == IF m # Null THEN Sample(m) ELSE prev

\* Whether the interval callback calls setMemory.
Emits(m) == m # Null

\* The effect body: setInterval(..., 1000).
StartMem ==
    /\ memPhase = "idle"
    /\ memPhase' = "running"
    /\ interval' = 1
    /\ timers' = timers \cup {1}
    /\ UNCHANGED <<now, perfMemory, memory, memLog, netVars, fpsVars, vitVars, wvVars, dragVars>>

\* A faulty variant of ClearedTimer: the cleanup clears an id no timer has.
ClearedTimerStale == interval - 1

\* The id the cleanup clears.
ClearedTimer == interval

\* A faulty variant of TimerFrames: timers and frame callbacks share one
\* list of handles.
TimerFramesShared(id) == {id}

\* The frame callbacks clearInterval(id) cancels: none, the host keeps timer
\* ids and frame-callback handles in separate lists.
TimerFrames(id) == {}

\* The effect cleanup: clearInterval(interval).
StopMem ==
    /\ memPhase = "running"
    /\ memPhase' = "stopped"
    /\ timers' = timers \ {ClearedTimer}
    /\ rafPending' = rafPending \ TimerFrames(ClearedTimer)
    /\ UNCHANGED <<now, interval, perfMemory, memory, memLog, netVars, fpsPhase, fps,
                   frameCount, lastTime, animationFrameId, rafNext, fpsLog,
                   vitVars, wvVars, dragVars>>

\* The host fires a live repeating timer: the interval callback runs.
MemTick ==
    /\ timers # {}
    /\ memLog.ticks < MaxMemTicks
    /\ memory' = Polled(perfMemory, memory)
    /\ memLog' = [memLog EXCEPT
                     !.ticks = @ + 1,
                     !.emits = IF Emits(perfMemory) THEN @ + 1 ELSE @,
                     !.lateTicks = IF memPhase = "stopped" THEN @ + 1 ELSE @,
                     !.lastTick = [present |-> perfMemory # Null,
                                   reading |-> perfMemory,
                                   updates |-> Emits(perfMemory)]]
    /\ UNCHANGED <<now, memPhase, interval, timers, perfMemory, netVars, fpsVars, vitVars, wvVars, dragVars>>

\* The host's heap capability appears, changes its readings, or disappears.
HostMemory(m) ==
    /\ m # perfMemory
    /\ perfMemory' = m
    /\ UNCHANGED <<now, memPhase, interval, timers, memory, memLog, netVars, fpsVars, vitVars, wvVars, dragVars>>

(***************************************************************************)
(* useWebVitals, PerformanceObserver based (src/unnamed/part_002).         *)
(* Times and durations are in milliseconds, layout-shift values in         *)
(* thousandths.                                                            *)
(***************************************************************************)
\* A numeric value of a snapshot field; Null is the field's initial value.
Num(n) == [value |-> n]

\* The entry type each observer subscribes to, in the order of the observe() calls.
ObserveOrder == <<"largest-contentful-paint", "layout-shift", "first-input", "event">>

EntryTypes == {ObserveOrder[k] : k \in DOMAIN ObserveOrder}

\* The snapshot field the observer of an entry type writes.
FieldOf(type) ==
    CASE type = "largest-contentful-paint" -> "lcp"
      [] type = "layout-shift" -> "cls"
      [] type = "first-input" -> "fid"
      [] type = "event" -> "inp"

\* Entries the host can deliver.  renderTime is 0 for an element whose render
\* time the host withholds; event entries have a positive duration.
LcpEntries == { [renderTime |-> 2500, loadTime |-> 2400],
                [renderTime |-> 0, loadTime |-> 1800] }
ClsEntries == { [value |-> 50, hadRecentInput |-> FALSE],
                [value |-> 200, hadRecentInput |-> TRUE],
                [value |-> 30, hadRecentInput |-> FALSE] }
FidEntries == { [startTime |-> 1000, processingStart |-> 1016],
                [startTime |-> 3000, processingStart |-> 3004] }
InpEntries == { [duration |-> d] : d \in {120, 340, 90} }

EntriesOf(type) ==
    CASE type = "largest-contentful-paint" -> LcpEntries
      [] type = "layout-shift" -> ClsEntries
      [] type = "first-input" -> FidEntries
      [] type = "event" -> InpEntries

\* What list.getEntries() returns in one callback: one entry or two.
Batches(type) ==
    { <<e>> : e \in EntriesOf(type) } \cup
    { <<e1, e2>> : e1 \in EntriesOf(type), e2 \in EntriesOf(type) }

\* A faulty variant of SetField: the updater drops the other fields.
SetFieldOnly(prev, field, v) ==
    [f \in DOMAIN prev |-> IF f = field THEN Num(v) ELSE Null]

\* A faulty variant of SetField: the value is written to every field.
SetFieldAll(prev, field, v) == [f \in DOMAIN prev |-> Num(v)]

\* setVitals(prev => ({ ...prev, field: v })).
SetField(prev, field, v) == [prev EXCEPT ![field] = Num(v)]

\* A faulty variant of LastEntry: the first entry of the list.
LastEntryFirst(entries) == entries[1]

\* entries[entries.length - 1].
LastEntry(entries) == entries[Len(entries)]

\* lastEntry.renderTime || lastEntry.loadTime || 0.
LcpValue(e) ==
    IF e.renderTime # 0 THEN e.renderTime
    ELSE IF e.loadTime # 0 THEN e.loadTime
    ELSE 0

\* The callback of lcpObserver.
LcpCallback(entries, st) ==
    [st EXCEPT !.vitals = SetField(@, "lcp", LcpValue(LastEntry(entries))),
               !.updates = @ + 1]

\* A faulty variant of ClsCounts: every entry counts.
ClsCountsAll(e) == TRUE

\* if (!entry.hadRecentInput).
ClsCounts(e) == ~e.hadRecentInput

\* The callback of clsObserver: the loop over the entries of the list.
RECURSIVE ClsCallback(_, _)
ClsCallback(entries, st) ==
    IF entries = <<>> THEN st
    ELSE LET e == Head(entries)
             sum == st.clsValue + e.value
             s1 == IF ClsCounts(e)
                   THEN [st EXCEPT !.clsValue = sum,
                                   !.vitals = SetField(@, "cls", sum),
                                   !.updates = @ + 1]
                   ELSE st
         IN  ClsCallback(Tail(entries), s1)

\* A faulty variant of FidValue: the delay is measured from time zero.
FidValueAbsolute(e) == e.processingStart

\* firstInput.processingStart - firstInput.startTime.
FidValue(e) == e.processingStart - e.startTime

\* The callback of fidObserver.
FidCallback(entries, st) ==
    IF Len(entries) > 0
    THEN [st EXCEPT !.vitals = SetField(@, "fid", FidValue(entries[1])),
                    !.updates = @ + 1]
    ELSE st

\* A faulty variant of InpWorse: every interaction replaces the held one.
InpWorseLatest(d, worst) == d # 0

\* if (entry.duration && entry.duration > worstInp).
InpWorse(d, worst) == d # 0 /\ d > worst

\* The callback of inpObserver: the loop over the entries of the list.
RECURSIVE InpCallback(_, _)
InpCallback(entries, st) ==
    IF entries = <<>> THEN st
    ELSE LET e == Head(entries)
             s1 == IF InpWorse(e.duration, st.worstInp)
                   THEN [st EXCEPT !.worstInp = e.duration,
                                   !.vitals = SetField(@, "inp", e.duration),
                                   !.updates = @ + 1]
                   ELSE st
         IN  InpCallback(Tail(entries), s1)

Callback(type, entries, st) ==
    CASE type = "largest-contentful-paint" -> LcpCallback(entries, st)
      [] type = "layout-shift" -> ClsCallback(entries, st)
      [] type = "first-input" -> FidCallback(entries, st)
      [] type = "event" -> InpCallback(entries, st)

\* observer.observe({ type, buffered: true }) on a host that rejects the
\* types in `rej`.
ObserveOutcome(type, rej) == IF type \in rej THEN "threw" ELSE "attached"

\* A faulty variant of AfterCatch: the exception of observe() propagates.
AfterCatchRethrows(o) == o

\* try { observe } catch { console.warn(...) }.
AfterCatch(o) == IF o = "threw" THEN "warned" ELSE o

\* The effect body from the k-th observe() call on; an exception that leaves
\* a try statement ends the effect.
RECURSIVE Subscribe(_, _, _)
Subscribe(k, rej, st) ==
    IF k > Len(ObserveOrder) THEN st
    ELSE LET type == ObserveOrder[k]
             o == AfterCatch(ObserveOutcome(type, rej))
         IN  IF o = "threw" THEN [st EXCEPT !.raised = TRUE]
             ELSE Subscribe(k + 1, rej,
                            IF o = "attached"
                            THEN [st EXCEPT !.attached = @ \cup {type}]
                            ELSE [st EXCEPT !.warned = @ \cup {type}])

\* The effect body, on a host that rejects the entry types in `rej`.
StartVit(rej) ==
    /\ vitPhase = "idle"
    /\ vitPhase' = "running"
    /\ rejected' = rej
    /\ LET st == Subscribe(1, rej, [attached |-> {}, warned |-> {}, raised |-> FALSE])
       IN  /\ observers' = st.attached
           /\ vitLog' = [vitLog EXCEPT !.raised = st.raised, !.warned = st.warned]
    /\ clsValue' = 0
    /\ worstInp' = 0
    /\ UNCHANGED <<now, vitals, netVars, fpsVars, memVars, wvVars, dragVars>>

\* The observers the cleanup disconnects.
Disconnected == EntryTypes

\* The effect cleanup: disconnect() on each of the four observers.
StopVit ==
    /\ vitPhase = "running"
    /\ vitPhase' = "stopped"
    /\ observers' = observers \ Disconnected
    /\ UNCHANGED <<now, rejected, vitals, clsValue, worstInp, vitLog,
                   netVars, fpsVars, memVars, wvVars, dragVars>>

\* The host delivers a list of entries to an attached observer.
Deliver(type, entries) ==
    /\ type \in observers
    /\ vitLog.deliveries < MaxDeliveries
    /\ LET st == Callback(type, entries,
                          [vitals |-> vitals, clsValue |-> clsValue,
                           worstInp |-> worstInp, updates |-> vitLog.updates])
       IN  /\ vitals' = st.vitals
           /\ clsValue' = st.clsValue
           /\ worstInp' = st.worstInp
           /\ vitLog' = [vitLog EXCEPT
                            !.deliveries = @ + 1,
                            !.updates = st.updates,
                            !.late = IF vitPhase = "stopped" THEN @ + 1 ELSE @,
                            !.seen[type] = @ \o entries]
    /\ UNCHANGED <<now, vitPhase, rejected, observers, netVars, fpsVars, memVars, wvVars, dragVars>>

(***************************************************************************)
(* useWebVitals, web-vitals based (src/src/hooks/useWebVitals.ts).         *)
(***************************************************************************)
\* The fields whose callback the effect registers: onLCP, onFCP, onCLS,
\* onINP, onTTFB.
Registered == {"lcp", "fcp", "cls", "inp", "ttfb"}

\* metric.value of a report.
MetricValues == {80, 2500}

\* The effect body: one library subscription per metric.
WvMount ==
    /\ wvPhase = "idle"
    /\ wvPhase' = "mounted"
    /\ wvSubs' = wvSubs \cup Registered
    /\ UNCHANGED <<now, wvVitals, wvLog, netVars, fpsVars, memVars, vitVars, dragVars>>

\* The subscriptions the unmount releases: the effect returns no cleanup.
Released == {}

\* The component unmounts.
WvUnmount ==
    /\ wvPhase = "mounted"
    /\ wvPhase' = "unmounted"
    /\ wvSubs' = wvSubs \ Released
    /\ UNCHANGED <<now, wvVitals, wvLog, netVars, fpsVars, memVars, vitVars, dragVars>>

\* The library reports a metric to the callback it holds for it:
\* setVitals((prev) => ({ ...prev, field: metric.value })).
WvReport(field, v) ==
    /\ field \in wvSubs
    /\ wvLog.reports < MaxReports
    /\ wvVitals' = SetField(wvVitals, field, v)
    /\ wvLog' = [wvLog EXCEPT
                    !.reports = @ + 1,
                    !.late = IF wvPhase = "unmounted" THEN @ + 1 ELSE @,
                    !.last = [field |-> field, value |-> v, before |-> wvVitals]]
    /\ UNCHANGED <<now, wvPhase, wvSubs, netVars, fpsVars, memVars, vitVars, dragVars>>

(***************************************************************************)
(* Dashboard: dragging the overlay (src/src/components/Dashboard.tsx).     *)
(***************************************************************************)
\* Pointer positions (clientX, clientY) of mouse events.
Points == { [x |-> 30, y |-> 40], [x |-> 100, y |-> 120] }

\* e.button: 0 is the left button, 2 the right one.
Buttons == {0, 2}

Minus(a, b) == [x |-> a.x - b.x, y |-> a.y - b.y]

\* A faulty variant of StartsDrag: every button starts a drag.
StartsDragAny(button) == TRUE

\* `if (e.button !== 0) return;`
StartsDrag(button) == button = 0

\* The listeners the effect cleanup removes.
Detached == {"mousemove", "mouseup"}

\* The effect body: the two window listeners are attached.
MountDash ==
    /\ dashPhase = "idle"
    /\ dashPhase' = "mounted"
    /\ listeners' = listeners \cup {"mousemove", "mouseup"}
    /\ UNCHANGED <<now, position, isDragging, dragOffset, dragLog,
                   netVars, fpsVars, memVars, vitVars, wvVars>>

\* The component unmounts: the effect cleanup runs.
UnmountDash ==
    /\ dashPhase = "mounted"
    /\ dashPhase' = "unmounted"
    /\ listeners' = listeners \ Detached
    /\ UNCHANGED <<now, position, isDragging, dragOffset, dragLog,
                   netVars, fpsVars, memVars, vitVars, wvVars>>

\* The history of a dispatched mouse event.  `armed` tells whether a left
\* button mousedown on the handle has occurred with no mouseup since.
Logged(type, button, pt, armed) ==
    [dragLog EXCEPT !.events = @ + 1,
                    !.afterUnmount = IF dashPhase = "unmounted" THEN @ + 1 ELSE @,
                    !.armed = armed,
                    !.last = [type |-> type, button |-> button, point |-> pt]]

\* A mousedown on the header or the minimized container: handleMouseDown.
MouseDown(button, pt) ==
    /\ dashPhase = "mounted"
    /\ dragLog.events < MaxMouseEvents
    /\ IF StartsDrag(button)
       THEN /\ isDragging' = TRUE
            /\ dragOffset' = Minus(pt, position)
       ELSE UNCHANGED <<isDragging, dragOffset>>
    /\ dragLog' = Logged("mousedown", button, pt, dragLog.armed \/ button = 0)
    /\ UNCHANGED <<now, dashPhase, position, listeners,
                   netVars, fpsVars, memVars, vitVars, wvVars>>

\* A mousemove reaches the window: handleMouseMove, if it is attached.
MouseMove(pt) ==
    /\ dragLog.events < MaxMouseEvents
    /\ IF "mousemove" \in listeners /\ isDragging
       THEN /\ position' = Minus(pt, dragOffset)
            /\ dragLog' = [Logged("mousemove", 0, pt, dragLog.armed) EXCEPT !.moves = @ + 1]
       ELSE /\ position' = position
            /\ dragLog' = Logged("mousemove", 0, pt, dragLog.armed)
    /\ UNCHANGED <<now, dashPhase, isDragging, dragOffset, listeners,
                   netVars, fpsVars, memVars, vitVars, wvVars>>

\* A mouseup reaches the window: handleMouseUp, if it is attached.
MouseUp(button, pt) ==
    /\ dragLog.events < MaxMouseEvents
    /\ isDragging' = IF "mouseup" \in listeners THEN FALSE ELSE isDragging
    /\ dragLog' = Logged("mouseup", button, pt, FALSE)
    /\ UNCHANGED <<now, dashPhase, position, dragOffset, listeners,
                   netVars, fpsVars, memVars, vitVars, wvVars>>

(***************************************************************************)
(* Initial states and specifications.                                      *)
(***************************************************************************)
InitNet(insts) ==
    /\ windowFetch = Native
    /\ captured = [w \in {} |-> Native]
    /\ active = [i \in insts |-> FALSE]
    /\ gen = [i \in insts |-> 0]
    /\ requests = [i \in insts |-> <<>>]
    /\ updates = [i \in insts |-> 0]
    /\ lateUpdates = [i \in insts |-> 0]
    /\ calls = [k \in {} |-> 0]
    /\ nextCall = 0
    /\ lastDone = [id |-> 0, fns |-> <<>>]

InitFps ==
    /\ fpsPhase = "idle"
    /\ fps = 0
    /\ frameCount = 0
    /\ lastTime = 0
    /\ animationFrameId = 0
    /\ rafPending = {}
    /\ rafNext = 0
    /\ fpsLog = [loopRuns |-> 0, emits |-> 0, hostFrames |-> 0, windowFrames |-> 0,
                 framesAfterStop |-> 0, lastEmit |-> [value |-> 0, frames |-> 0, elapsed |-> 0]]

InitMem ==
    /\ memPhase = "idle"
    /\ interval = 0
    /\ timers = {}
    /\ perfMemory \in HeapReadings \cup {Null}
    /\ memory = Null
    /\ memLog = [ticks |-> 0, emits |-> 0, lateTicks |-> 0,
                 lastTick |-> [present |-> FALSE, reading |-> Null, updates |-> FALSE]]

InitVit ==
    /\ vitPhase = "idle"
    /\ rejected = {}
    /\ observers = {}
    /\ vitals = [lcp |-> Null, fid |-> Null, cls |-> Null, inp |-> Null]
    /\ clsValue = 0
    /\ worstInp = 0
    /\ vitLog = [deliveries |-> 0, updates |-> 0, late |-> 0, raised |-> FALSE,
                 warned |-> {}, seen |-> [t \in EntryTypes |-> <<>>]]

InitWv ==
    /\ wvPhase = "idle"
    /\ wvSubs = {}
    /\ wvVitals = [f \in Registered |-> Null]
    /\ wvLog = [reports |-> 0, late |-> 0,
                last |-> [field |-> "", value |-> 0, before |-> [f \in Registered |-> Null]]]

InitDash ==
    /\ dashPhase = "idle"
    /\ position = [x |-> 20, y |-> 20]
    /\ isDragging = FALSE
    /\ dragOffset = [x |-> 0, y |-> 0]
    /\ listeners = {}
    /\ dragLog = [events |-> 0, moves |-> 0, afterUnmount |-> 0, armed |-> FALSE,
                  last |-> [type |-> "", button |-> 0, point |-> [x |-> 0, y |-> 0]]]

InitAll(insts) ==
    now = 0 /\ InitNet(insts) /\ InitFps /\ InitMem /\ InitVit /\ InitWv /\ InitDash

Instances == DOMAIN active

\* The effect has an empty dependency list: it runs once per mounted hook.
EffectRuns == 1

\* Two mounted hooks (two interceptor instances) whose lifetimes may overlap.
NextNet ==
    \/ \E i \in Instances : StartNet(i, EffectRuns)
    \/ \E i \in Instances : StopNet(i)
    \/ \E input \in StringInputs : CallFetch(input, MaxCalls, MaxCalls)
    \/ \E w \in DOMAIN captured, input \in StringInputs :
          CallRetained(w, input, MaxCalls, MaxCalls)
    \/ \E id \in DOMAIN calls, d \in Latencies :
          \E out \in Responses(id) \cup Failures(id) : Settle(id, out, d)

SpecNet == InitAll({1, 2}) /\ [][NextNet]_vars

\* Two mounted hooks whose stop handles may be invoked more than once.
NextRestop ==
    \/ NextNet
    \/ \E i \in Instances : StopNetAgain(i)

SpecRestop == InitAll({1, 2}) /\ [][NextRestop]_vars

\* One interceptor instance started and stopped repeatedly.
NextSingle ==
    \/ \E i \in Instances : StartNet(i, MaxCycles)
    \/ \E i \in Instances : StopNet(i)
    \/ \E input \in Inputs : CallFetch(input, MaxCycleCalls, MaxCycleCalls)
    \/ \E w \in DOMAIN captured, input \in Inputs :
          CallRetained(w, input, MaxCycleCalls, MaxCycleCalls)
    \/ \E id \in DOMAIN calls, d \in Latencies :
          \E out \in Responses(id) \cup Failures(id) : Settle(id, out, d)

SpecSingle == InitAll({1}) /\ [][NextSingle]_vars

\* One interceptor instance that stays mounted over a long run of calls, at
\* most two of them pending at once, all settling within one clock reading.
HistOutcomes(id) == { o \in Responses(id) : o.resp.status = 200 } \cup Failures(id)

NextHist ==
    \/ \E i \in Instances : StartNet(i, EffectRuns)
    \/ \E input \in StringInputs : CallFetch(input, MaxHistCalls, 2)
    \/ \E id \in DOMAIN calls, d \in {0} :
          \E out \in HistOutcomes(id) : Settle(id, out, d)

SpecHist == InitAll({1}) /\ [][NextHist]_vars

NextFps ==
    \/ StartFps
    \/ StopFps
    \/ \E gap \in FrameGaps : HostFrame(gap)

SpecFps == InitAll({1}) /\ [][NextFps]_vars

NextMem ==
    \/ StartMem
    \/ StopMem
    \/ MemTick
    \/ \E m \in HeapReadings \cup {Null} : HostMemory(m)

SpecMem == InitAll({1}) /\ [][NextMem]_vars

\* The dashboard on a host without the heap capability.
InitNoHeap == InitAll({1}) /\ perfMemory = Null

\* The PerformanceObserver based hook, mounted and unmounted once.
NextVit ==
    \/ \E rej \in SUBSET EntryTypes : StartVit(rej)
    \/ StopVit
    \/ \E type \in EntryTypes : \E entries \in Batches(type) : Deliver(type, entries)

SpecVit == InitNoHeap /\ [][NextVit]_vars

\* The web-vitals based hook, mounted and unmounted once.
NextWv ==
    \/ WvMount
    \/ WvUnmount
    \/ \E field \in Registered, v \in MetricValues : WvReport(field, v)

SpecWv == InitNoHeap /\ [][NextWv]_vars

\* The Dashboard component, mounted and unmounted once, under mouse events.
NextDrag ==
    \/ MountDash
    \/ UnmountDash
    \/ \E button \in Buttons, pt \in Points : MouseDown(button, pt)
    \/ \E pt \in Points : MouseMove(pt)
    \/ \E button \in Buttons, pt \in Points : MouseUp(button, pt)

SpecDrag == InitNoHeap /\ [][NextDrag]_vars

\* The four hooks of the dashboard side by side, on a host with the heap
\* capability, each started and stopped on its own.
InitHeap ==
    /\ InitAll({1})
    /\ perfMemory = [usedJSHeapSize |-> 1572864, jsHeapSizeLimit |-> 4194304]

\* Host events so far: frames, ticks, deliveries, fetch calls.
Events == fpsLog.hostFrames + memLog.ticks + vitLog.deliveries + nextCall

NextAll ==
    \/ StartFps
    \/ StopFps
    \/ Events < MaxEvents /\ \E gap \in {g \in FrameGaps : g >= WindowTicks} : HostFrame(gap)
    \/ StartMem
    \/ StopMem
    \/ Events < MaxEvents /\ MemTick
    \/ StartVit({})
    \/ StopVit
    \/ Events < MaxEvents /\ \E e \in LcpEntries : Deliver("largest-contentful-paint", <<e>>)
    \/ \E i \in Instances : StartNet(i, EffectRuns)
    \/ \E i \in Instances : StopNet(i)
    \/ Events < MaxEvents /\ \E input \in StringInputs : CallFetch(input, MaxCalls, MaxCalls)
    \/ \E id \in DOMAIN calls, d \in Latencies :
          \E out \in HistOutcomes(id) : Settle(id, out, d)

SpecAll == InitHeap /\ [][NextAll]_vars

(***************************************************************************)
(* Properties of useNetworkMonitor.                                        *)
(***************************************************************************)
AllStopped == \A i \in Instances : ~active[i]

\* C1 (SpecSingle): with a single interceptor instance, whenever the instance
\* is stopped, after any number of start/stop cycles and intercepted calls,
\* window.fetch is the function that was installed before the first start.
C1_RoundTrip == AllStopped => windowFetch = Native

\* C1 witness: the second cycle has ended, calls were intercepted, and the
\* browser's fetch is installed again.
C1_Witness ==
    /\ gen[1] >= 2
    /\ ~active[1]
    /\ updates[1] >= 1
    /\ windowFetch = Native

\* C2 (SpecNet), the claim as stated: once every started instance of two
\* overlapping interceptors has been stopped, window.fetch is the function
\* installed before the first start and no wrapper remains installed.
C2_OverlapRestores ==
    (AllStopped /\ \A i \in Instances : gen[i] > 0)
        => (windowFetch = Native /\ windowFetch \notin DOMAIN captured)

\* C3 (SpecNet), the claim as stated: an interceptor that has been stopped
\* never invokes setRequests again.
C3_NoUpdateAfterStop == \A i \in Instances : lateUpdates[i] = 0

\* Number of frames of call c that belong to instance i.
FramesOf(c, i) == Cardinality({k \in DOMAIN c.frames : c.frames[k].fn[1] = i})

\* C4 (SpecNet): when the browser's fetch rejects, every interceptor the call
\* went through prepends exactly one record, with status 0 and duration >= 0,
\* the other histories are untouched, and the caller gets a rejection with
\* the very error the browser raised.
C4_FailureTransparent ==
    [][\A id \in DOMAIN calls :
          (id \notin DOMAIN calls' /\ ~lastDone'.native.ok) =>
             /\ ~lastDone'.caller.ok
             /\ lastDone'.caller.err = lastDone'.native.err
             /\ \A i \in Instances :
                   IF FramesOf(calls[id], i) = 1
                   THEN /\ requests'[i] = SubSeq(<<requests'[i][1]>> \o requests[i], 1,
                                                 Min(HistoryLimit, Len(requests[i]) + 1))
                        /\ requests'[i][1].call = id
                        /\ requests'[i][1].status = 0
                        /\ requests'[i][1].duration >= 0
                   ELSE requests'[i] = requests[i]]_vars

\* C4 witness: a call that went through both interceptors was rejected, and
\* both recorded it.
C4_Witness ==
    /\ lastDone.id # 0
    /\ ~lastDone.native.ok
    /\ Len(lastDone.fns) = 2
    /\ \A i \in Instances : /\ requests[i] # <<>>
                            /\ requests[i][1].call = lastDone.id
                            /\ requests[i][1].status = 0
                            /\ requests[i][1].duration > 0

\* C5 (SpecNet): every wrapper a call runs through delegates to the original
\* it captured, with the caller's argument list, down to the browser's fetch;
\* when that resolves, the caller receives the very response object and every
\* record made for the call carries the response's status.
C5_SuccessTransparent ==
    /\ \A id \in DOMAIN calls :
          LET c == calls[id]
              n == Len(c.frames)
          IN  /\ c.nativeArgs = c.args
              /\ n > 0 => c.frames[1].fn = c.entry
              /\ \A k \in 1..n :
                    /\ c.frames[k].callee = captured[c.frames[k].fn]
                    /\ c.frames[k].args = c.args
                    /\ c.frames[k].passed = c.args
                    /\ c.frames[k].callee = IF k < n THEN c.frames[k + 1].fn ELSE Native
    /\ (lastDone.id # 0 /\ lastDone.native.ok) =>
          /\ lastDone.caller = lastDone.native
          /\ \A k \in DOMAIN lastDone.fns :
                LET r == requests[lastDone.fns[k][1]][1]
                IN  r.call = lastDone.id /\ r.status = lastDone.native.resp.status

\* C5 witness: a call through two wrappers resolved with status 404.
C5_Witness ==
    /\ lastDone.id # 0
    /\ lastDone.native.ok
    /\ lastDone.native.resp.status = 404
    /\ Len(lastDone.fns) = 2
    /\ DOMAIN calls # {}

\* C6 (SpecHist): the history never holds more than 5 records; after n
\* intercepted calls have completed it holds the min(n, 5) most recently
\* completed ones, newest first.
C6_BoundedHistory ==
    \A i \in Instances :
       /\ Len(requests[i]) <= 5
       /\ Len(requests[i]) = Min(updates[i], 5)
       /\ \A p \in DOMAIN requests[i] : requests[i][p].seq = updates[i] - p + 1
       /\ (lastDone.id # 0 /\ lastDone.fns # <<>>) => requests[i][1].call = lastDone.id

\* C6 witness: 8 calls have completed, 5 records are held, the oldest held one
\* is the 4th completion: the first 3 were evicted.
C6_Witness ==
    /\ updates[1] = 8
    /\ Len(requests[1]) = 5
    /\ requests[1][5].seq = 4
    /\ requests[1][1].seq = 8

\* C7 (SpecNet): within one history the records stand in completion order,
\* newest first, whatever the order in which the calls were initiated.
C7_CompletionOrder ==
    \A i \in Instances :
       \A p, q \in DOMAIN requests[i] :
          p < q => requests[i][p].seq > requests[i][q].seq

\* C7 witness: call 1 was initiated before call 2, call 2 settled first, and
\* the record of call 1 stands ahead of the record of call 2.
C7_Witness ==
    \E i \in Instances :
       /\ Len(requests[i]) = 2
       /\ requests[i][1].call = 1
       /\ requests[i][2].call = 2

(***************************************************************************)
(* Properties of useFps.                                                   *)
(***************************************************************************)
\* C8 (SpecFps), the claim as stated: every emitted value is
\* round(count * 1000 / elapsed), where count is the number of frame events
\* of the window and elapsed >= 1000 ms is the time since the window began,
\* and a window is closed by the frame that brings it to 1000 ms.
C8_FpsEmission ==
    /\ fpsLog.emits > 0 =>
          /\ fpsLog.lastEmit.elapsed >= WindowTicks
          /\ fpsLog.lastEmit.value =
                MathRound(fpsLog.lastEmit.frames * 1000 * TicksPerMs,
                          fpsLog.lastEmit.elapsed)
    /\ fpsPhase = "running" => now - lastTime < WindowTicks

\* C9 (SpecFps): once the cleanup has run, the loop body never runs again:
\* no fps update, no further requestAnimationFrame call, nothing pending,
\* whatever frames the host renders.
C9_NoLoopAfterStop ==
    [][fpsPhase = "stopped" =>
          /\ fpsLog'.loopRuns = fpsLog.loopRuns
          /\ fpsLog'.emits = fpsLog.emits
          /\ fps' = fps
          /\ rafNext' = rafNext
          /\ rafPending' = {}]_vars

\* C9 witness: the loop ran on several frames, was stopped, and the host has
\* rendered two more frames since.
C9_Witness ==
    /\ fpsPhase = "stopped"
    /\ fpsLog.loopRuns >= 3
    /\ fpsLog.framesAfterStop >= 2
    /\ rafPending = {}

(***************************************************************************)
(* Properties of useMemory.                                                *)
(***************************************************************************)
\* C10 (SpecMem), the claim as stated: every interval tick emits exactly one
\* update: the sample when performance.memory is present on that tick, null
\* when it is absent.
C10_EmitsEveryTick ==
    /\ memLog.emits = memLog.ticks
    /\ memLog.ticks > 0 =>
          memory = IF memLog.lastTick.present THEN Sample(memLog.lastTick.reading)
                                              ELSE Null

\* C11 (SpecMem): once the cleanup has run, also when it runs between two
\* ticks, the interval callback never runs again and the `memory` state gets
\* no further update; the host holds no timer of the hook.
C11_NoTickAfterStop ==
    [][memPhase = "stopped" =>
          /\ memLog'.ticks = memLog.ticks
          /\ memLog'.emits = memLog.emits
          /\ memory' = memory
          /\ timers' = {}]_vars

\* C11 witness: the cleanup ran after a tick that emitted a sample and before
\* the next one the host would have fired, and the heap readings have changed
\* since the last sample.
C11_Witness ==
    /\ memPhase = "stopped"
    /\ memLog.ticks >= 1
    /\ memLog.ticks < MaxMemTicks
    /\ memLog.lastTick.present
    /\ perfMemory # memLog.lastTick.reading
    /\ memory = Sample(memLog.lastTick.reading)

(***************************************************************************)
(* Properties of useWebVitals.                                             *)
(***************************************************************************)
\* Sum of the value fields of a sequence of layout-shift entries.
RECURSIVE SumValues(_)
SumValues(entries) ==
    IF entries = <<>> THEN 0 ELSE Head(entries).value + SumValues(Tail(entries))

\* The delivered layout-shift entries that carry no hadRecentInput flag.
Unflagged == SelectSeq(vitLog.seen["layout-shift"], LAMBDA e : ~e.hadRecentInput)

\* C12 (SpecVit): whatever layout-shift entries were delivered, in whatever
\* batches, the running sum is the sum of the values of exactly the entries
\* without the hadRecentInput flag, and cls shows that sum as soon as one
\* such entry has been delivered; flagged entries contribute nothing.
C12_ClsSum ==
    /\ clsValue = SumValues(Unflagged)
    /\ Unflagged # <<>> => vitals.cls = Num(SumValues(Unflagged))

\* C12 witness: the entries 0.05, 0.2 (flagged) and 0.03 were delivered in
\* two batches and cls is 0.08.
C12_Witness ==
    /\ vitLog.deliveries = 2
    /\ vitLog.seen["layout-shift"] =
          << [value |-> 50, hadRecentInput |-> FALSE],
             [value |-> 200, hadRecentInput |-> TRUE],
             [value |-> 30, hadRecentInput |-> FALSE] >>
    /\ vitals.cls = Num(80)

\* Largest duration in a non-empty sequence of event entries.
RECURSIVE MaxDuration(_)
MaxDuration(entries) ==
    IF Len(entries) = 1 THEN entries[1].duration
    ELSE LET m == MaxDuration(Tail(entries))
         IN  IF entries[1].duration > m THEN entries[1].duration ELSE m

\* C13 (SpecVit): whatever event entries were delivered, in whatever batches,
\* inp is the largest duration among all of them, not the last one and not
\* a mean, and inp never decreases.
C13_InpMax ==
    [][/\ vitLog'.seen["event"] # <<>> =>
             /\ vitals'.inp = Num(MaxDuration(vitLog'.seen["event"]))
             /\ worstInp' = MaxDuration(vitLog'.seen["event"])
       /\ vitals.inp # Null =>
             /\ vitals'.inp # Null
             /\ vitals'.inp.value >= vitals.inp.value]_vars

\* C13 witness: the durations 120, 340 and 90 were delivered in two batches,
\* the largest neither first nor last, and inp is 340.
C13_Witness ==
    /\ vitLog.deliveries = 2
    /\ vitLog.seen["event"] = <<[duration |-> 120], [duration |-> 340], [duration |-> 90]>>
    /\ vitals.inp = Num(340)

\* C14 (SpecVit), the claim as stated: once a first-input entry has been
\* delivered, fid is processingStart - startTime of the very first entry
\* delivered on that stream, whatever was delivered on it later.
C14_FidFirstOnly ==
    vitLog.seen["first-input"] # <<>> =>
        vitals.fid = Num(FidValue(vitLog.seen["first-input"][1]))

\* C15 (SpecVit): after every delivery on the largest-contentful-paint stream
\* lcp is the value (renderTime, or loadTime when renderTime is withheld) of
\* the last entry of the batch delivered last, whether that is more or less
\* than the value lcp held before.
C15_LcpLatestWins ==
    LET seenLcp == vitLog.seen["largest-contentful-paint"]
    IN  seenLcp # <<>> => vitals.lcp = Num(LcpValue(seenLcp[Len(seenLcp)]))

\* C15 witness: an entry of value 2500 was delivered, then, in a second
\* batch, an entry of the smaller value 1800; lcp is 1800.
C15_Witness ==
    /\ vitLog.deliveries = 2
    /\ vitLog.seen["largest-contentful-paint"] =
          << [renderTime |-> 2500, loadTime |-> 2400],
             [renderTime |-> 0, loadTime |-> 1800] >>
    /\ vitals.lcp = Num(1800)

\* Whether an entry makes its observer publish a value: a layout shift
\* without recent input; any entry of the other three types.
Qualifying(type, e) == type = "layout-shift" => ~e.hadRecentInput

\* C16 (SpecVit): each of lcp, fid, cls, inp is null exactly as long as no
\* qualifying entry has been delivered on its own stream; it is non-null
\* right after the first such delivery and in every later state, whatever
\* happens on the other streams.
C16_Nullness ==
    \A type \in EntryTypes :
       vitals[FieldOf(type)] = Null
          <=> \A k \in DOMAIN vitLog.seen[type] : ~Qualifying(type, vitLog.seen[type][k])

\* C16 witness: lcp and fid have been observed and are set; a layout shift
\* with recent input has been delivered and cls is still null; nothing has
\* been delivered on the event stream and inp is null.
C16_Witness ==
    /\ vitLog.deliveries = 3
    /\ vitals.lcp # Null
    /\ vitals.fid # Null
    /\ vitLog.seen["layout-shift"] # <<>>
    /\ vitals.cls = Null
    /\ vitLog.seen["event"] = <<>>
    /\ vitals.inp = Null

\* C17 (SpecVit): whichever entry types the host rejects at observe(), the
\* effect body raises nothing, it attaches the observer of every other type,
\* those observers receive and reduce their entries, and the field of every
\* rejected type stays null.
C17_PartialFailure ==
    vitPhase # "idle" =>
       /\ ~vitLog.raised
       /\ vitLog.warned = rejected
       /\ vitPhase = "running" => observers = EntryTypes \ rejected
       /\ \A type \in rejected :
             /\ vitLog.seen[type] = <<>>
             /\ vitals[FieldOf(type)] = Null
       /\ \A type \in EntryTypes \ rejected :
             vitLog.seen[type] # <<>> =>
                \/ vitals[FieldOf(type)] # Null
                \/ \A k \in DOMAIN vitLog.seen[type] : ~Qualifying(type, vitLog.seen[type][k])

\* C17 witness: the host rejected layout-shift and first-input; the observers
\* subscribed before and after them are attached and have reduced entries.
C17_Witness ==
    /\ vitPhase = "running"
    /\ rejected = {"layout-shift", "first-input"}
    /\ observers = {"largest-contentful-paint", "event"}
    /\ vitLog.deliveries = 3
    /\ vitals.lcp # Null
    /\ vitals.inp = Num(340)
    /\ vitals.cls = Null
    /\ vitals.fid = Null

\* C18 (SpecWv), the claim as stated: unmounting releases every metric
\* subscription the effect created (lcp, fcp, cls, inp, ttfb), and after it
\* no report changes the snapshot or invokes setVitals.
C18_StopReleasesAll ==
    /\ wvPhase = "unmounted" => wvSubs = {}
    /\ wvLog.late = 0

(***************************************************************************)
(* Properties of the stop handles.                                         *)
(***************************************************************************)
\* C19 (SpecRestop), the claim as stated: a second invocation of an
\* interceptor's stop handle leaves every piece of state, window.fetch
\* included, as it was just before that invocation, whatever the other
\* interceptor did between the two invocations.
C19_DoubleStopNoOp ==
    [][\A i \in Instances : StopNetAgain(i) => UNCHANGED vars]_vars

\* C20 (SpecNet): a second interceptor started while the first is active is
\* stacked on it.  While both are active, a call through window.fetch runs
\* through the wrapper of each exactly once and ends in one call of the
\* browser's fetch; when it settles, each of the two prepends exactly one
\* record for it.  Stopping the second and then the first puts the
\* browser's fetch back.
C20_Composes ==
    [][/\ \* a call through window.fetch while both are active
          (nextCall' = nextCall + 1 /\ \A i \in Instances : active[i]) =>
             LET c == calls'[nextCall']
             IN  c.entry = windowFetch =>
                    /\ \A i \in Instances : FramesOf(c, i) = 1
                    /\ Len(c.frames) = Cardinality(Instances)
                    /\ c.frames[Len(c.frames)].callee = Native
       /\ \* a call that runs through both settles
          \A id \in DOMAIN calls :
             (id \notin DOMAIN calls' /\ \A i \in Instances : FramesOf(calls[id], i) = 1) =>
                \A i \in Instances :
                   /\ updates'[i] = updates[i] + 1
                   /\ Len(requests'[i]) = Min(HistoryLimit, Len(requests[i]) + 1)
                   /\ requests'[i][1].call = id
                   /\ \A p \in 2..Len(requests'[i]) : requests'[i][p] = requests[i][p - 1]
       /\ \* LIFO stops: j, started on top of i, stops first, then i
          \A i, j \in Instances :
             (i # j /\ gen[i] > 0 /\ gen[j] > 0
                  /\ captured[Wrapper(i, gen[i])] = Native
                  /\ captured[Wrapper(j, gen[j])] = Wrapper(i, gen[i])
                  /\ active[i]) =>
                /\ (active[j] /\ ~active'[j]) => windowFetch' = Wrapper(i, gen[i])
                /\ (~active[j] /\ ~active'[i]) => windowFetch' = Native]_vars

\* C20 witness: interceptor 2 was started on top of interceptor 1, a call
\* made through window.fetch was recorded by both while both were active,
\* then 2 and 1 were stopped in that order and window.fetch is the browser's
\* fetch.
C20_Witness ==
    /\ AllStopped
    /\ captured = (Wrapper(1, 1) :> Native) @@ (Wrapper(2, 1) :> Wrapper(1, 1))
    /\ windowFetch = Native
    /\ lastDone.id # 0
    /\ lastDone.fns = <<Wrapper(2, 1), Wrapper(1, 1)>>
    /\ \A i \in Instances : updates[i] = 1 /\ lateUpdates[i] = 0

(***************************************************************************)
(* Properties of the collectors taken together.                            *)
(***************************************************************************)
\* C21 (SpecFps), the claim as stated: the effect bodies only register a
\* callback, timer, subscription or interception; as long as the host has
\* run no later turn for a collector (no frame, no tick, no delivery, no
\* settlement) that collector has counted no frame, taken no sample and
\* emitted no update.
C21_StartMeasuresNothing ==
    /\ fpsLog.hostFrames = 0 =>
          /\ frameCount = 0
          /\ fpsLog.loopRuns = 0
          /\ fpsLog.emits = 0
    /\ memLog.ticks = 0 => (memory = Null /\ memLog.emits = 0)
    /\ vitLog.deliveries = 0 => vitLog.updates = 0
    /\ lastDone.id = 0 => \A i \in Instances : updates[i] = 0

\* C22 (SpecAll): every step of one collector (its start, its stop, an
\* update of it) leaves the state of the other three as it was: values,
\* running/stopped status, pending timers, callbacks and subscriptions; and
\* only the network collector ever changes window.fetch.
C22_Independence ==
    [][/\ fpsVars' # fpsVars => UNCHANGED <<memVars, vitVars, netVars>>
       /\ memVars' # memVars => UNCHANGED <<fpsVars, vitVars, netVars>>
       /\ vitVars' # vitVars => UNCHANGED <<fpsVars, memVars, netVars>>
       /\ netVars' # netVars => UNCHANGED <<fpsVars, memVars, vitVars>>
       /\ windowFetch' # windowFetch => active' # active]_vars

\* C22 witness: all four collectors were started and the frame-rate, heap
\* and vitals collectors have emitted; the heap collector has since been
\* stopped while the other three are still running with their callback,
\* observers and wrapper in place.
C22_Witness ==
    /\ fpsPhase = "running" /\ fpsLog.emits = 1 /\ rafPending = {animationFrameId}
    /\ memPhase = "stopped" /\ memory # Null /\ timers = {}
    /\ vitPhase = "running" /\ vitals.lcp # Null /\ observers = EntryTypes
    /\ active[1] /\ windowFetch = Wrapper(1, 1)

\* C23 (SpecFps): from the end of the effect body to the cleanup exactly one
\* frame callback is pending and animationFrameId is its handle, the one
\* scheduled last; after the cleanup no callback is pending.
C23_OnePending ==
    /\ fpsPhase = "running" =>
          /\ rafPending = {animationFrameId}
          /\ animationFrameId = rafNext
    /\ fpsPhase = "stopped" => rafPending = {}

\* C23 witness: the loop has rescheduled itself on four frames, one of which
\* closed a window, and one callback, the fifth scheduled, is pending.
C23_Witness ==
    /\ fpsPhase = "running"
    /\ fpsLog.loopRuns = 5
    /\ fpsLog.emits >= 1
    /\ rafPending = {5}

\* C24 (SpecFps): a run of loop at which at least 1000 ms have passed since
\* the window start emits the count including this very frame, resets the
\* counter to 0 and moves the window start to this run's time, so the
\* closing frame is counted in the window it closes and not in the next; a
\* run at which less than 1000 ms have passed counts the frame and leaves
\* the fps value and the window start as they were.
C24_WindowBookkeeping ==
    [][(fpsPhase = "running" /\ fpsLog'.loopRuns = fpsLog.loopRuns + 1) =>
          IF now' - lastTime >= WindowTicks
          THEN /\ frameCount' = 0
               /\ lastTime' = now'
               /\ fps' = FpsValue(frameCount + 1, now' - lastTime)
               /\ fpsLog'.emits = fpsLog.emits + 1
          ELSE /\ frameCount' = frameCount + 1
               /\ lastTime' = lastTime
               /\ fps' = fps
               /\ fpsLog'.emits = fpsLog.emits]_vars

\* C24 witness: a window was closed by the frame that brought it to exactly
\* 1000 ms, and the frame after it is the only one counted in the new
\* window, with the emitted value still exposed.
C24_Witness ==
    /\ fpsPhase = "running"
    /\ fpsLog.emits = 1
    /\ fpsLog.lastEmit.elapsed = WindowTicks
    /\ frameCount = 1
    /\ now > lastTime
    /\ fps = fpsLog.lastEmit.value

\* C25 (SpecMem): the capability is looked up on every tick: a tick that
\* finds it present, right after a tick that found it absent, emits the
\* sample computed from the byte counts the capability reports on this tick.
C25_RechecksCapability ==
    [][(/\ memLog'.ticks = memLog.ticks + 1
        /\ memLog.ticks >= 1
        /\ ~memLog.lastTick.present
        /\ perfMemory # Null) =>
          /\ memory' = [used |-> ToMB(perfMemory.usedJSHeapSize),
                        limit |-> ToMB(perfMemory.jsHeapSizeLimit)]
          /\ memLog'.emits = memLog.emits + 1]_vars

\* C25 witness: the first tick found no capability and emitted nothing, the
\* second found it and emitted its sample.
C25_Witness ==
    /\ memLog.ticks = 2
    /\ memLog.emits = 1
    /\ memLog.lastTick.present
    /\ memory = Sample(memLog.lastTick.reading)

\* C26 (SpecHist): an insertion changes no field of a record already in the
\* history: every old record stands one position further toward the tail,
\* unchanged, or, if it was the fifth, is gone.
C26_RecordsImmutable ==
    [][\A i \in Instances :
          requests'[i] # requests[i] =>
             /\ Len(requests'[i]) = Min(HistoryLimit, Len(requests[i]) + 1)
             /\ \A p \in DOMAIN requests[i] :
                   p + 1 <= Len(requests'[i]) =>
                      /\ requests'[i][p + 1].url = requests[i][p].url
                      /\ requests'[i][p + 1].status = requests[i][p].status
                      /\ requests'[i][p + 1].duration = requests[i][p].duration
                      /\ requests'[i][p + 1].timestamp = requests[i][p].timestamp
                      /\ requests'[i][p + 1] = requests[i][p]]_vars

\* C26 witness: a full history of successes and failures has taken further
\* insertions; the record of the second completed call, a failure, now
\* stands last and the record of the first is evicted.
C26_Witness ==
    /\ updates[1] = 6
    /\ Len(requests[1]) = HistoryLimit
    /\ requests[1][5].seq = 2
    /\ requests[1][5].status = 0
    /\ requests[1][4].status = 200
    /\ requests[1][1].status = 200

\* C27 (SpecFps): on a clock that never runs backwards, every division made
\* for an fps value has a positive divisor, and the exposed fps is a
\* non-negative integer in every state.
C27_FpsNatural ==
    /\ fpsLog.emits > 0 => fpsLog.lastEmit.elapsed > 0
    /\ fps \in Nat
    /\ fpsLog.emits > 0 => fps = fpsLog.lastEmit.value

\* C27 witness: two windows have been closed; the second, of 1100 ms with a
\* single frame, gave the value 1.
C27_Witness ==
    /\ fpsLog.emits = 2
    /\ fpsLog.lastEmit.elapsed = 1100 * TicksPerMs
    /\ fps = 1

\* C28 (SpecHist): with one interceptor mounted, a call that entered the
\* wrapper gets its record in the step in which its fetch settles, one
\* setRequests invocation and one record, with the response's status on
\* success and status 0 on failure; a call still pending has no record, and
\* no call has two records in the history.
C28_OneRecordPerCall ==
    [][/\ \A id \in DOMAIN calls :
             (id \notin DOMAIN calls' /\ calls[id].frames # <<>>) =>
                /\ updates'[1] = updates[1] + 1
                /\ requests'[1][1].call = id
                /\ requests'[1][1].status =
                      IF lastDone'.native.ok THEN lastDone'.native.resp.status ELSE 0
                /\ \A p \in 2..Len(requests'[1]) : requests'[1][p].call # id
       /\ \A id \in DOMAIN calls' :
             \A p \in DOMAIN requests'[1] : requests'[1][p].call # id
       /\ (\A id \in DOMAIN calls : id \in DOMAIN calls') => requests'[1] = requests[1]
       /\ \A p, q \in DOMAIN requests'[1] :
             p # q => requests'[1][p].call # requests'[1][q].call]_vars

\* C28 witness: five calls through the wrapper have settled, successes and
\* a failure among them, each with its one record, while a sixth and a
\* seventh are pending without one.
C28_Witness ==
    /\ active[1]
    /\ updates[1] = 5
    /\ {requests[1][p].call : p \in DOMAIN requests[1]} = 1..5
    /\ \E p, q \in DOMAIN requests[1] : requests[1][p].status = 0 /\ requests[1][q].status = 200
    /\ DOMAIN calls = {6, 7}

\* C29 (SpecVit): a delivery on one stream changes at most the field of that
\* stream; every other field of the snapshot is after the delivery what it
\* was before, in every interleaving of deliveries on the four streams.
C29_FieldIsolation ==
    [][\A type \in EntryTypes :
          vitLog'.seen[type] # vitLog.seen[type] =>
             \A other \in EntryTypes \ {type} :
                vitals'[FieldOf(other)] = vitals[FieldOf(other)]]_vars

\* C29 witness: deliveries on the layout-shift, event and first-input
\* streams, in that order of completion or another, have each set their
\* field; the three values stand side by side and lcp is still null.
C29_Witness ==
    /\ vitLog.deliveries = 3
    /\ vitals.cls = Num(80)
    /\ vitals.inp = Num(340)
    /\ vitals.fid = Num(16)
    /\ vitals.lcp = Null

====
